---- MODULE Spec2Model ----
(***************************************************************************)
(* A model of cmd/root.go: the `run` command of the method reordering      *)
(* tool.  A file is a sequence of lexical chunks (a newline, a one-line    *)
(* comment, a whole top-level declaration, the package clause, or text     *)
(* the Go grammar rejects); an offset counts chunks the way a Go offset    *)
(* counts bytes.  `run` is modelled statement by statement, with `pc`      *)
(* holding its position, and the file on disk persists between runs.       *)
(***************************************************************************)
EXTENDS Integers, Sequences, FiniteSets, Bags, TLC

\* Bounds of the model.
MaxLines == 3
MaxRuns == 2

----------------------------------------------------------------------------
\* Strings are sequences of byte values; s < t is Go's string comparison.

RECURSIVE StrLess(_, _)
StrLess(s, t) ==
    IF t = <<>> THEN FALSE
    ELSE IF s = <<>> THEN TRUE
    ELSE IF Head(s) # Head(t) THEN Head(s) < Head(t)
    ELSE StrLess(Tail(s), Tail(t))

\* strings.HasPrefix(s, prefix)
HasPrefix(s, prefix) ==
    /\ Len(s) >= Len(prefix)
    /\ SubSeq(s, 1, Len(prefix)) = prefix

\* The literal "New" of line 75.
NewPrefix == <<78, 101, 119>>

\* b[lo:hi], a Go slice expression over 0-based offsets.
Slice(b, lo, hi) == SubSeq(b, lo + 1, hi)

\* A join that also puts the separator after the last element.
RECURSIVE JoinTrailing(_, _)
JoinTrailing(elems, sep) ==
    IF elems = <<>> THEN <<>>
    ELSE elems[1] \o sep \o JoinTrailing(Tail(elems), sep)

\* strings.Join(elems, sep)
RECURSIVE Join(_, _)
Join(elems, sep) ==
    IF elems = <<>> THEN <<>>
    ELSE IF Len(elems) = 1 THEN elems[1]
    ELSE elems[1] \o sep \o Join(Tail(elems), sep)

----------------------------------------------------------------------------
\* The chunks of a source file.

Chunk(k, recvNil, recvN, name) ==
    [k |-> k, recvNil |-> recvNil, recvN |-> recvN, name |-> name]

NL  == Chunk("nl", TRUE, 0, <<>>)       \* "\n"
CM  == Chunk("cm", TRUE, 0, <<>>)       \* a one-line comment
PKG == Chunk("pkg", TRUE, 0, <<>>)      \* the package clause
BAD == Chunk("bad", TRUE, 0, <<>>)      \* text that is no Go declaration
GenDecl == Chunk("gen", TRUE, 0, <<>>)  \* a type or var declaration

\* func helper() {}
FreeFunc == Chunk("func", TRUE, 0, <<104>>)
\* func (t *T) Ne() {}, func (t *T) Z() {}, func (t *T) a() {}
MethodNe == Chunk("func", FALSE, 1, <<78, 101>>)
MethodZ == Chunk("func", FALSE, 1, <<90>>)
MethodLowerA == Chunk("func", FALSE, 1, <<97>>)
\* func (t *T) New() {}
MethodNew == Chunk("func", FALSE, 1, NewPrefix)
\* func () New() {}: a receiver list with no field, which go/parser accepts
EmptyRecvNew == Chunk("func", FALSE, 0, NewPrefix)

DeclChunks ==
    {GenDecl, FreeFunc, MethodNe, MethodZ, MethodLowerA, MethodNew, EmptyRecvNew}

SingleNewline == <<NL>>

\* "\n\n", the separator of line 110
Sep == <<NL, NL>>

\* The lines a modelled input file is made of.
LineForms ==
    {<<NL>>, <<CM, NL>>, <<BAD, NL>>, <<CM, MethodZ, NL>>, <<MethodZ, CM, NL>>}
        \cup {<<d, NL>> : d \in DeclChunks}

RECURSIVE Concat(_)
Concat(ls) == IF ls = <<>> THEN <<>> ELSE Head(ls) \o Concat(Tail(ls))

InputFiles ==
    {<<PKG, NL>> \o Concat(ls) :
        ls \in UNION {[1..n -> LineForms] : n \in 0..MaxLines}}

----------------------------------------------------------------------------
\* parser.ParseFile(fSet, inputFile, src, parser.ParseComments), line 57.

SetMax(S) == CHOOSE x \in S : \A y \in S : y <= x
SetMin(S) == CHOOSE x \in S : \A y \in S : x <= y

\* token.Pos of the chunk at offset off: the file's base, 1, plus the offset.
FileBase == 1
PosOf(off) == FileBase + off
\* fSet.Position(p).Offset
PositionOffset(p) == p - FileBase

\* The parser before the first chunk: no token read yet, no comment group.
ScanStart ==
    [line     |-> 1,       \* the line of the next chunk
     prevLine |-> 0,       \* the line of the last token, 0 before the first
     grp      |-> 0,       \* the index of the first comment of the last
                           \* comment group after the last token, 0 if none
     grpEnd   |-> 0,       \* the line that group ends on
     seenPkg  |-> FALSE,
     ok       |-> TRUE,
     decls    |-> <<>>]

\* A comment.  One on the line of the last token is a line comment of that
\* token; any other joins the group that ends on its line or on the line
\* above, or else starts a new group.
ScanComment(st, idx) ==
    IF st.line = st.prevLine THEN st
    ELSE IF st.grp # 0 /\ st.line <= st.grpEnd + 1
         THEN [st EXCEPT !.grpEnd = st.line]
         ELSE [st EXCEPT !.grp = idx, !.grpEnd = st.line]

\* The ast.Decl of declaration chunk c at index idx: its doc comment is the
\* last comment group if that group ends on the line right above.
DeclAt(st, c, idx) ==
    LET hasDoc == st.grp # 0 /\ st.grpEnd + 1 = st.line
    IN [kind    |-> c.k,
        recvNil |-> c.recvNil,
        recvN   |-> c.recvN,
        name    |-> c.name,
        pos     |-> PosOf(idx - 1),
        end     |-> PosOf(idx),
        docNil  |-> ~hasDoc,
        docPos  |-> IF hasDoc THEN PosOf(st.grp - 1) ELSE 0]

\* A token.  The package clause must be the first token and the only one
\* of its kind; a newline (an automatic semicolon) must end a declaration
\* before the next token; text that is no declaration is an error.
ScanToken(st, c, idx) ==
    LET good ==
            /\ c.k # "bad"
            /\ (c.k = "pkg") <=> ~st.seenPkg
            /\ st.line # st.prevLine
    IN [st EXCEPT
          !.ok = st.ok /\ good,
          !.seenPkg = st.seenPkg \/ c.k = "pkg",
          !.prevLine = st.line,
          !.grp = 0,
          !.grpEnd = 0,
          !.decls = IF c.k \in {"gen", "func"}
                    THEN Append(st.decls, DeclAt(st, c, idx))
                    ELSE st.decls]

RECURSIVE Scan(_, _, _)
Scan(s, idx, st) ==
    IF idx > Len(s) THEN st
    ELSE IF s[idx].k = "nl"
         THEN Scan(s, idx + 1, [st EXCEPT !.line = st.line + 1])
    ELSE IF s[idx].k = "cm"
         THEN Scan(s, idx + 1, ScanComment(st, idx))
    ELSE Scan(s, idx + 1, ScanToken(st, s[idx], idx))

\* The file parses: err == nil on line 58.
ParseOK(s) ==
    LET st == Scan(s, 1, ScanStart)
    IN st.ok /\ st.seenPkg

\* file.Decls, in source order.
ParseDecls(s) == Scan(s, 1, ScanStart).decls

----------------------------------------------------------------------------
\* The comparators of lines 22-32 and sort.Sort.

ByNameGreater(x, y) == StrLess(y.name, x.name)
ByPosGreater(x, y) == y.start < x.start

ByNameLess(x, y) == StrLess(x.name, y.name)
ByPosLess(x, y) == x.start < y.start

\* sort.Sort is not stable: any permutation of m that Less leaves in order;
\* less[a, b] is Less(a, b) of the sort.Interface over the indexes of m.
SortResults(m, less) ==
    {[k \in 1..Len(m) |-> m[p[k]]] :
        p \in {q \in [1..Len(m) -> 1..Len(m)] :
                 /\ \A a, b \in 1..Len(m) : a # b => q[a] # q[b]
                 /\ \A a \in 1..(Len(m) - 1) : ~less[q[a + 1], q[a]]}}

\* sort.Sort(ByName(m)) and sort.Sort(ByPos(m))
SortedByName(m) ==
    SortResults(m, [a \in 1..Len(m), b \in 1..Len(m) |-> ByNameLess(m[a], m[b])])
SortedByPos(m) ==
    SortResults(m, [a \in 1..Len(m), b \in 1..Len(m) |-> ByPosLess(m[a], m[b])])

----------------------------------------------------------------------------
\* The selection of lines 65-86.

\* A start that leaves the doc comment out.
UnitStartNoDoc(d) == d.pos
\* A nil check that never fires.
RecvNeverNil(d) == FALSE

IsFuncDecl(d) == d.kind = "func"
RecvIsNil(d) == d.recvNil
\* ast.FieldList.NumFields: 0 for a nil list
NumFields(d) == IF d.recvNil THEN 0 ELSE d.recvN
\* line 75
ExcludedNew(d) == HasPrefix(d.name, NewPrefix) /\ NumFields(d) > 0
\* lines 79-82
UnitStart(d) == IF ~d.docNil THEN d.docPos ELSE d.pos
\* line 83
UnitEnd(d) == d.end
\* Method{decl: funcDecl, start: start, end: end}; decl points at decls[idx]
MakeMethod(d, idx) ==
    [decl |-> idx, name |-> d.name, start |-> UnitStart(d), end |-> UnitEnd(d)]

\* string(src[startOff:endOff]) of lines 105-107
SourceOf(b, m) == Slice(b, PositionOffset(m.start), PositionOffset(m.end))

----------------------------------------------------------------------------
VARIABLES
    file,           \* the content of inputFile on disk
    pc,             \* the position of run
    src,            \* line 51
    decls,          \* file.Decls, line 57
    i,              \* the index of the loop of line 65
    methods,        \* line 63
    posMethods,     \* line 97
    firstStartOff,  \* line 99
    lastEndOff,     \* line 100
    sortedSources,  \* line 103
    joined,         \* line 110
    newSrc,         \* line 113
    ret,            \* what run returned
    out,            \* what run printed
    writes,         \* the calls of os.WriteFile in this run
    units,          \* methods as the loop of line 65 left it
    orig,           \* the content of inputFile when this run started
    prevOutcome,    \* how the previous run ended
    runs            \* the runs started so far

locals ==
    <<src, decls, i, methods, posMethods, firstStartOff, lastEndOff,
      sortedSources, joined, newSrc, units>>
vars ==
    <<file, pc, src, decls, i, methods, posMethods, firstStartOff, lastEndOff,
      sortedSources, joined, newSrc, ret, out, writes, units, orig,
      prevOutcome, runs>>

NoMethodsMsg == "No methods to reorder"
ReorderedMsg == "Methods reordered"

\* The terminal state of the run, once it has returned.
Outcome ==
    IF pc # "done" THEN "running"
    ELSE IF ret # "nil" THEN "error"
    ELSE IF out = NoMethodsMsg THEN "NoOp"
    ELSE "Rewritten"

InitLocals ==
    /\ src = <<>>
    /\ decls = <<>>
    /\ i = 1
    /\ methods = <<>>
    /\ posMethods = <<>>
    /\ firstStartOff = 0
    /\ lastEndOff = 0
    /\ sortedSources = <<>>
    /\ joined = <<>>
    /\ newSrc = <<>>
    /\ units = <<>>

ResetLocals ==
    /\ src' = <<>>
    /\ decls' = <<>>
    /\ i' = 1
    /\ methods' = <<>>
    /\ posMethods' = <<>>
    /\ firstStartOff' = 0
    /\ lastEndOff' = 0
    /\ sortedSources' = <<>>
    /\ joined' = <<>>
    /\ newSrc' = <<>>
    /\ units' = <<>>

Init ==
    /\ file \in InputFiles
    /\ pc = "read"
    /\ InitLocals
    /\ ret = "running"
    /\ out = ""
    /\ writes = 0
    /\ orig = file
    /\ prevOutcome = "none"
    /\ runs = 1

\* lines 51-54, os.ReadFile succeeds
ReadOk ==
    /\ pc = "read"
    /\ src' = file
    /\ pc' = "parse"
    /\ UNCHANGED <<file, decls, i, methods, posMethods, firstStartOff,
                   lastEndOff, sortedSources, joined, newSrc, ret, out,
                   writes, units, orig, prevOutcome, runs>>

\* lines 51-54, os.ReadFile fails
ReadFail ==
    /\ pc = "read"
    /\ ret' = "readErr"
    /\ pc' = "done"
    /\ UNCHANGED <<file, out, writes, orig, prevOutcome, runs>>
    /\ UNCHANGED locals

\* lines 56-60, the file parses
ParseFileOk ==
    /\ pc = "parse"
    /\ ParseOK(src)
    /\ decls' = ParseDecls(src)
    /\ i' = 1
    /\ pc' = "loop"
    /\ UNCHANGED <<file, src, methods, posMethods, firstStartOff, lastEndOff,
                   sortedSources, joined, newSrc, ret, out, writes, units,
                   orig, prevOutcome, runs>>

\* A parse whose error is not returned: the run goes on with what was parsed.
ParseFileIgnoresErr ==
    /\ pc = "parse"
    /\ ~ParseOK(src)
    /\ decls' = ParseDecls(src)
    /\ i' = 1
    /\ pc' = "loop"
    /\ UNCHANGED <<file, src, methods, posMethods, firstStartOff, lastEndOff,
                   sortedSources, joined, newSrc, ret, out, writes, units,
                   orig, prevOutcome, runs>>

\* lines 56-60, the file does not parse
ParseFileFail ==
    /\ pc = "parse"
    /\ ~ParseOK(src)
    /\ ret' = "parseErr"
    /\ pc' = "done"
    /\ UNCHANGED <<file, out, writes, orig, prevOutcome, runs>>
    /\ UNCHANGED locals

InLoop == pc = "loop" /\ i <= Len(decls)

LoopNext ==
    /\ i' = i + 1
    /\ UNCHANGED <<file, pc, src, decls, posMethods, firstStartOff,
                   lastEndOff, sortedSources, joined, newSrc, ret, out,
                   writes, orig, prevOutcome, runs>>

\* lines 66-69
LoopNotFunc ==
    /\ InLoop
    /\ ~IsFuncDecl(decls[i])
    /\ LoopNext
    /\ UNCHANGED <<methods, units>>

\* lines 70-72
LoopNoRecv ==
    /\ InLoop
    /\ IsFuncDecl(decls[i])
    /\ RecvIsNil(decls[i])
    /\ LoopNext
    /\ UNCHANGED <<methods, units>>

\* lines 74-77
LoopSkipNew ==
    /\ InLoop
    /\ IsFuncDecl(decls[i])
    /\ ~RecvIsNil(decls[i])
    /\ ExcludedNew(decls[i])
    /\ LoopNext
    /\ UNCHANGED <<methods, units>>

\* lines 79-85
LoopAppend ==
    /\ InLoop
    /\ IsFuncDecl(decls[i])
    /\ ~RecvIsNil(decls[i])
    /\ ~ExcludedNew(decls[i])
    /\ methods' = Append(methods, MakeMethod(decls[i], i))
    /\ units' = methods'
    /\ LoopNext

\* lines 88-91
NoMethods ==
    /\ pc = "loop"
    /\ i > Len(decls)
    /\ Len(methods) = 0
    /\ out' = NoMethodsMsg
    /\ ret' = "nil"
    /\ pc' = "done"
    /\ UNCHANGED <<file, writes, orig, prevOutcome, runs>>
    /\ UNCHANGED locals

\* line 94
SortByName ==
    /\ pc = "loop"
    /\ i > Len(decls)
    /\ Len(methods) # 0
    /\ methods' \in SortedByName(methods)
    /\ pc' = "sortPos"
    /\ UNCHANGED <<file, src, decls, i, posMethods, firstStartOff, lastEndOff,
                   sortedSources, joined, newSrc, ret, out, writes, units,
                   orig, prevOutcome, runs>>

\* The block taken from the name order, without the sort by position.
SortByPosKeepsNameOrder ==
    /\ pc = "sortPos"
    /\ posMethods' = methods
    /\ firstStartOff' = PositionOffset(posMethods'[1].start)
    /\ lastEndOff' = PositionOffset(posMethods'[Len(posMethods')].end)
    /\ pc' = "slice"
    /\ UNCHANGED <<file, src, decls, i, methods, sortedSources, joined,
                   newSrc, ret, out, writes, units, orig, prevOutcome, runs>>

\* lines 97-100
SortByPos ==
    /\ pc = "sortPos"
    /\ posMethods' \in SortedByPos(methods)
    /\ firstStartOff' = PositionOffset(posMethods'[1].start)
    /\ lastEndOff' = PositionOffset(posMethods'[Len(posMethods')].end)
    /\ pc' = "slice"
    /\ UNCHANGED <<file, src, decls, i, methods, sortedSources, joined,
                   newSrc, ret, out, writes, units, orig, prevOutcome, runs>>

\* lines 103-110
JoinSources ==
    /\ pc = "slice"
    /\ sortedSources' = [k \in 1..Len(methods) |-> SourceOf(src, methods[k])]
    /\ joined' = Join(sortedSources', Sep)
    /\ pc' = "build"
    /\ UNCHANGED <<file, src, decls, i, methods, posMethods, firstStartOff,
                   lastEndOff, newSrc, ret, out, writes, units, orig,
                   prevOutcome, runs>>

\* A splice that resumes one byte too late.
SpliceSkipsByte(b, first, text, last) ==
    Slice(b, 0, first) \o text \o Slice(b, last + 1, Len(b))

\* lines 113-116
Splice(b, first, text, last) ==
    Slice(b, 0, first) \o text \o Slice(b, last, Len(b))

BuildNewSrc ==
    /\ pc = "build"
    /\ newSrc' = Splice(src, firstStartOff, joined, lastEndOff)
    /\ pc' = "write"
    /\ UNCHANGED <<file, src, decls, i, methods, posMethods, firstStartOff,
                   lastEndOff, sortedSources, joined, ret, out, writes,
                   units, orig, prevOutcome, runs>>

\* lines 132-138, os.WriteFile succeeds
WriteOk ==
    /\ pc = "write"
    /\ file' = newSrc
    /\ writes' = writes + 1
    /\ out' = ReorderedMsg
    /\ ret' = "nil"
    /\ pc' = "done"
    /\ UNCHANGED <<orig, prevOutcome, runs>>
    /\ UNCHANGED locals

\* lines 132-134, os.WriteFile fails: it could not open the file, or it
\* truncated the file and wrote nothing.
WriteFail ==
    /\ pc = "write"
    /\ file' \in {file, <<>>}
    /\ writes' = writes + 1
    /\ ret' = "writeErr"
    /\ pc' = "done"
    /\ UNCHANGED <<out, orig, prevOutcome, runs>>
    /\ UNCHANGED locals

\* The tool is started again on the same file (lines 41-49).
Rerun ==
    /\ pc = "done"
    /\ runs < MaxRuns
    /\ runs' = runs + 1
    /\ prevOutcome' = Outcome
    /\ orig' = file
    /\ pc' = "read"
    /\ ret' = "running"
    /\ out' = ""
    /\ writes' = 0
    /\ ResetLocals
    /\ UNCHANGED file

Next ==
    \/ ReadOk
    \/ ReadFail
    \/ ParseFileOk
    \/ ParseFileFail
    \/ LoopNotFunc
    \/ LoopNoRecv
    \/ LoopSkipNew
    \/ LoopAppend
    \/ NoMethods
    \/ SortByName
    \/ SortByPos
    \/ JoinSources
    \/ BuildNewSrc
    \/ WriteOk
    \/ WriteFail
    \/ Rerun

Spec == Init /\ [][Next]_vars

----------------------------------------------------------------------------
\* What the properties below are stated in.

Rewritten == Outcome = "Rewritten"
NoOp == Outcome = "NoOp"

\* The loop of line 65 has run to its end in this run.
SelectionDone ==
    \/ pc = "loop" /\ i > Len(decls)
    \/ pc \in {"sortPos", "slice", "build", "write"}
    \/ pc = "done" /\ ret \in {"nil", "writeErr"}

LessEq(a, b) == a = b \/ StrLess(a, b)

\* The declarations the Selection Policy of the specification includes.
PolicySelects(d) ==
    /\ d.kind = "func"
    /\ ~d.recvNil /\ d.recvN > 0
    /\ ~HasPrefix(d.name, NewPrefix)

\* The text of a declaration in buffer b, its doc comment included.
DeclText(b, d) ==
    SubSeq(b, IF d.docNil THEN d.pos ELSE d.docPos, d.end - 1)

StartOffs == {units[k].start - 1 : k \in 1..Len(units)}
EndOffs == {units[k].end - 1 : k \in 1..Len(units)}
MinStart == SetMin(StartOffs)
MaxEnd == SetMax(EndOffs)
\* The end offset of the selected unit that comes last in the source.
LastUnitEnd ==
    LET k == CHOOSE k \in 1..Len(units) :
                 \A j \in 1..Len(units) : units[j].start <= units[k].start
    IN units[k].end - 1

\* The declarations the run selected, as indexes into decls.
SelectedDecls == {units[k].decl : k \in 1..Len(units)}

RECURSIVE SumLen(_)
SumLen(ss) == IF ss = <<>> THEN 0 ELSE Len(Head(ss)) + SumLen(Tail(ss))

\* The texts of the selected units, in the order of the output.
OutTexts == [k \in 1..Len(methods) |-> DeclText(orig, decls[methods[k].decl])]
BlockLen == Len(file) - MinStart - (Len(orig) - LastUnitEnd)

\* The declarations of a list that the tool reorders: the functions with a
\* receiver list, but for those that have a receiver and a name in "New".
Selectable(ds) ==
    {k \in 1..Len(ds) :
        /\ ds[k].kind = "func"
        /\ ~ds[k].recvNil
        /\ ~(HasPrefix(ds[k].name, NewPrefix) /\ ds[k].recvN > 0)}

----------------------------------------------------------------------------
\* C1: a rewritten file begins with the original bytes before the first
\* selected unit and ends with the original bytes from the end of the last
\* selected unit in source order.
C1_Frame ==
    Rewritten =>
        /\ Len(file) >= MinStart + (Len(orig) - LastUnitEnd)
        /\ Slice(file, 0, MinStart) = Slice(orig, 0, MinStart)
        /\ Slice(file, Len(file) - (Len(orig) - LastUnitEnd), Len(file))
             = Slice(orig, LastUnitEnd, Len(orig))

C1_Witness ==
    /\ Rewritten
    /\ file # orig
    /\ MinStart > 2
    /\ Len(units) >= 2
    /\ LastUnitEnd < Len(orig)

\* C2: in the written file the selected units stand in ascending
\* case-sensitive lexicographic order of name.
C2_NameOrder ==
    Rewritten =>
        LET ds == ParseDecls(file)
            sel == Selectable(ds)
        IN /\ ParseOK(file)
           /\ Cardinality(sel) = Len(units)
           /\ \A a, b \in sel : a < b => LessEq(ds[a].name, ds[b].name)
           /\ \A k \in 1..(Len(methods) - 1) :
                 LessEq(methods[k].name, methods[k + 1].name)

C2_Witness ==
    /\ Rewritten
    /\ Len(units) = 3
    /\ units[1].name = <<97>>
    /\ units[2].name = <<90>>
    /\ units[3].name = <<78, 101>>
    /\ [k \in 1..3 |-> methods[k].name] = <<<<78, 101>>, <<90>>, <<97>>>>

\* C3: every declaration with a non-empty receiver and a name without the
\* prefix "New" yields exactly one unit, and the replaced block holds each
\* selected unit's original text exactly once, byte for byte: the units of
\* the output are the selected units, none lost and none doubled.
C3_Complete ==
    Rewritten =>
        /\ \A d \in 1..Len(decls) :
              PolicySelects(decls[d]) =>
                  /\ Cardinality({k \in 1..Len(units) : units[k].decl = d}) = 1
                  /\ Cardinality({k \in 1..Len(methods) : methods[k].decl = d}) = 1
        /\ Len(methods) = Len(units)
        /\ \A k \in 1..Len(units) :
              Cardinality({j \in 1..Len(methods) :
                              methods[j].decl = units[k].decl}) = 1
        /\ Slice(file, MinStart, MinStart + BlockLen) = Join(OutTexts, Sep)

C3_Witness ==
    /\ Rewritten
    /\ Len(units) >= 2
    /\ \E k \in 1..Len(units) : ~decls[units[k].decl].docNil
    /\ methods # units

\* C4: a declaration is selected exactly when it is a function declaration
\* with a non-empty receiver whose name does not start with "New"; a
\* function with an empty receiver list is never selected.
C4_SelectionPolicy ==
    SelectionDone =>
        \A d \in 1..Len(decls) :
            (d \in SelectedDecls) <=> PolicySelects(decls[d])

TiesKeepOrder ==
    \A a, b \in 1..Len(methods) :
        (a < b /\ methods[a].name = methods[b].name) =>
            methods[a].start < methods[b].start

\* C6: a rewrite of the output of a rewrite writes the same bytes again,
\* provided units of equal names are not reordered.
C6_Idempotent ==
    prevOutcome = "Rewritten" =>
        /\ ret # "parseErr"
        /\ ~NoOp
        /\ (Rewritten /\ TiesKeepOrder) => file = orig

C6_Witness ==
    /\ prevOutcome = "Rewritten"
    /\ Rewritten
    /\ TiesKeepOrder
    /\ Len(units) >= 2
    /\ \E a, b \in 1..Len(units) : units[a].name # units[b].name

\* C7: in the block two consecutive units are separated by exactly two
\* newlines, nothing stands before the first or after the last, and the
\* block is as long as the units' texts plus 2*(n-1).
C7_Separator ==
    Rewritten =>
        LET texts == OutTexts
            first == MinStart
            off(k) == first + SumLen(SubSeq(texts, 1, k - 1)) + 2 * (k - 1)
        IN /\ BlockLen = SumLen(texts) + 2 * (Len(methods) - 1)
           /\ \A k \in 1..Len(methods) :
                 /\ Slice(file, off(k), off(k) + Len(texts[k])) = texts[k]
                 /\ k < Len(methods) =>
                       Slice(file, off(k) + Len(texts[k]),
                             off(k) + Len(texts[k]) + 2) = <<NL, NL>>

C7_Witness ==
    /\ Rewritten
    /\ Len(methods) >= 2
    /\ \E k \in 1..Len(methods) : Len(OutTexts[k]) > 1

\* C8: a run whose read or parse fails writes nothing and ends neither in
\* NoOp nor in Rewritten; a run writes at most once, and only after a parse
\* that succeeded and selected a unit.
C8_FailFast ==
    /\ ret \in {"readErr", "parseErr"} =>
          /\ writes = 0
          /\ file = orig
          /\ newSrc = <<>>
          /\ ~NoOp /\ ~Rewritten
    /\ \/ writes = 0 /\ file = orig /\ ~NoOp /\ ~Rewritten
       \/ ParseOK(orig)
    /\ pc = "done" => (ret \in {"readErr", "parseErr"} \/ ParseOK(orig))
    /\ writes <= 1
    /\ writes >= 1 => Len(units) >= 1

C8_Witness ==
    /\ pc = "done"
    /\ ret = "parseErr"
    /\ \E k \in 1..Len(orig) : orig[k] = MethodZ

\* C9: a declaration that was not selected and lies between the start of
\* the first and the end of the last selected unit is not in the output:
\* the block holds the selected units' texts and nothing else.
C9_Dropped ==
    Rewritten =>
        LET outDecls == ParseDecls(file)
            kept == {d \in 1..Len(decls) :
                        \/ d \in SelectedDecls
                        \/ decls[d].end - 1 <= MinStart
                        \/ decls[d].pos - 1 >= LastUnitEnd}
        IN /\ Len(outDecls) = Cardinality(kept)
           /\ \A k \in 1..Len(outDecls) :
                 (outDecls[k].pos - 1 >= MinStart
                     /\ outDecls[k].pos - 1 < MinStart + BlockLen)
                 => k \in Selectable(outDecls)
           /\ Slice(file, MinStart, MinStart + BlockLen) = Join(OutTexts, Sep)

C9_Witness ==
    /\ Rewritten
    /\ Len(decls) = 3
    /\ decls[1].name = <<90>> /\ 1 \in SelectedDecls
    /\ decls[2] .name = <<104>> /\ decls[2].recvNil
    /\ decls[3].name = <<78, 101>> /\ 3 \in SelectedDecls
    /\ \A k \in 1..Len(file) : file[k] # FreeFunc

\* C10: every unit has start < end, the units do not overlap, and the
\* replaced region runs from the least start to the greatest end, which is
\* the end of the unit with the greatest start.
C10_Spans ==
    pc \in {"slice", "build", "write"} \/ (pc = "done" /\ ret \in {"writeErr"}) \/ Rewritten =>
        /\ \A k \in 1..Len(units) : units[k].start < units[k].end
        /\ \A a, b \in 1..Len(units) :
              a # b => \/ units[a].end <= units[b].start
                       \/ units[b].end <= units[a].start
        /\ firstStartOff = MinStart
        /\ lastEndOff = MaxEnd
        /\ LastUnitEnd = MaxEnd
        /\ firstStartOff <= lastEndOff

C10_Witness ==
    /\ pc = "slice"
    /\ Len(units) = 2
    /\ methods[1].start > methods[2].start
    /\ ~decls[units[2].decl].docNil
    /\ lastEndOff - firstStartOff > 3

====
